---- MODULE Spec2Model ----
(***************************************************************************)
(* Model of the PowerVR gpulib interface (src/src/pvr/gpulib_if.c): the    *)
(* command decoder do_cmd_list, the GPU state it keeps in `pvr`, and the   *)
(* headers and vertices it submits through pvr_dr_get / pvr_dr_put.        *)
(*                                                                         *)
(* A uint32_t is a record [hi, lo] of its two 16-bit halves (TLC integers  *)
(* are 32-bit signed, so 0xe1000000 does not fit in one).  The halves are  *)
(* also the U2[] view of union PacketBuffer on the little-endian SH4:      *)
(* U2[2k] is the low half of U4[k], U2[2k+1] the high half.                *)
(*                                                                         *)
(* A vertex position is kept before the multiplication by screen_fw /      *)
(* screen_fh (floats set outside this file): x_to_pvr is the integer       *)
(* x + draw_dx - draw_x1, which a float holds exactly.                     *)
(***************************************************************************)
EXTENDS Integers, Sequences, FiniteSets, TLC

VARIABLES
    stream,      \* the words the emulator has pending for the GPU, in order
    fed,         \* offset in stream of list_start of the current call
    ncalls,      \* number of do_cmd_list calls made so far
    list_len,    \* do_cmd_list: argument list_len
    pos,         \* do_cmd_list: list - list_start
    cmd,         \* do_cmd_list: local uint32_t cmd
    pc,          \* "idle" | "loop" | "break" | "done"
    pvr,         \* static struct pvr_renderer pvr
    ex_regs1,    \* gpu.ex_regs[1]
    ex_hist,     \* history: gpu.ex_regs[1] at the entry of each call, in order
    last_cmd,    \* *last_cmd of the caller
    cycles_sum_out,  \* *cycles_sum_out of the caller
    cycles_last,     \* *cycles_last of the caller
    cpu_cycles_sum,  \* do_cmd_list: local cpu_cycles_sum
    cpu_cycles,      \* do_cmd_list: local cpu_cycles
    ret,         \* value returned by the last call
    rets,        \* history: the values returned by the calls, in order
    lens,        \* history: the list_len of the calls, in order
    out,         \* every header and vertex committed by pvr_dr_put, in order
    dispatched,  \* history: [at, op] of the commands the current call dispatched
    last_e3,     \* history: operand word of the most recent 0xe3 command
    last_e5,     \* history: operand word of the most recent 0xe5 command
    scene        \* "closed" | "open": between pvr_scene_begin and pvr_scene_finish

vars == <<stream, fed, ncalls, list_len, pos, cmd, pc, pvr, ex_regs1, ex_hist,
          last_cmd, cycles_sum_out, cycles_last, cpu_cycles_sum, cpu_cycles,
          ret, rets, lens, out, dispatched, last_e3, last_e5, scene>>

----------------------------------------------------------------------------
(* Bounds of the model *)

\* longest stream of the general universe, in commands
MaxCmds == 2
\* number of do_cmd_list calls over one stream
MaxCalls == 2

----------------------------------------------------------------------------
(* uint32_t / int32_t / int16_t arithmetic *)

W(h, l) == [hi |-> h, lo |-> l]

\* (w >> from) & (2^n - 1)
Field(w, from, n) ==
    IF from >= 16 THEN (w.hi \div (2^(from - 16))) % (2^n)
    ELSE IF from + n <= 16 THEN (w.lo \div (2^from)) % (2^n)
    ELSE (w.lo \div (2^from)) + ((w.hi % (2^(from + n - 16))) * (2^(16 - from)))

\* (a & ~(2^n - 1)) | (b & (2^n - 1)), n <= 16
MergeLow(a, b, n) == W(a.hi, (a.lo - (a.lo % (2^n))) + (b.lo % (2^n)))

\* (int16_t)u for u the low 16 bits
S16(u) == IF u >= 32768 THEN u - 65536 ELSE u

\* conversion of an int to int16_t (GCC: modulo 2^16)
ToInt16(v) == S16(v % 65536)

\* mutant: the value taken as a 16-bit one, without its sign
ToInt32_LowHalf(w) == w.lo

\* (int32_t)w
ToInt32(w) == (S16(w.hi) * 65536) + w.lo

\* w << n on 32 bits (GCC defines the shift of a negative int32_t as on uint32_t)
Shl32(w, n) ==
    IF n >= 16 THEN W((w.lo * (2^(n - 16))) % 65536, 0)
    ELSE W(((w.hi * (2^n)) + (w.lo \div (2^(16 - n)))) % 65536, (w.lo * (2^n)) % 65536)

\* (int32_t)w >> n, arithmetic
Sar32(w, n) ==
    IF n >= 16 THEN S16(w.hi) \div (2^(n - 16))
    ELSE ToInt32(w) \div (2^n)

\* __builtin_bswap32(w)
bswap32(w) == W(((w.lo % 256) * 256) + (w.lo \div 256), ((w.hi % 256) * 256) + (w.hi \div 256))

\* w >> 8
Shr8(w) == W(w.hi \div 256, ((w.hi % 256) * 256) + (w.lo \div 256))

----------------------------------------------------------------------------
(* The per-opcode operand count.  do_cmd_list reads it at line 182; the    *)
(* table itself belongs to gpulib and is the one of the PlayStation GPU    *)
(* command protocol.                                                       *)

cmd_lengths(op) ==
    CASE op = 2 -> 2
      [] op \in 32..35 -> 3
      [] op \in 36..39 -> 6
      [] op \in 40..43 -> 4
      [] op \in 44..47 -> 8
      [] op \in 48..51 -> 5
      [] op \in 52..55 -> 8
      [] op \in 56..59 -> 7
      [] op \in 60..63 -> 11
      [] op \in 64..71 -> 2
      [] op \in 72..87 -> 3
      [] op \in 88..95 -> 4
      [] op \in 96..99 -> 2
      [] op \in 100..103 -> 3
      [] op \in 104..107 -> 1
      [] op \in 112..115 -> 1
      [] op \in 116..119 -> 2
      [] op \in 120..123 -> 1
      [] op \in 124..127 -> 2
      [] op \in 128..159 -> 3
      [] op \in 160..223 -> 2
      [] OTHER -> 0

----------------------------------------------------------------------------
(* GPU state and primitive emission *)

\* renderer_init: memset(&pvr, 0, ...); pvr.gp1 = 0x14802000
renderer_init ==
    [gp1 |-> W(5248, 8192),
     draw_x1 |-> 0, draw_y1 |-> 0, draw_x2 |-> 0, draw_y2 |-> 0,
     draw_dx |-> 0, draw_dy |-> 0, set_mask |-> 0, check_mask |-> 0]

\* mutant: the clip corner left out of the transform
x_to_pvr_NoClip(st, x) == x + st.draw_dx

\* x_to_pvr, before the scaling by screen_fw
x_to_pvr(st, x) == (x + st.draw_dx) - st.draw_x1

\* y_to_pvr, before the scaling by screen_fh
y_to_pvr(st, y) == (y + st.draw_dy) - st.draw_y1

\* mutant: the top byte dropped but the channels not swapped
BgrToRgb_NoSwap(w) == W(w.hi % 256, w.lo)

\* the BGR->RGB swap: __builtin_bswap32(w) >> 8
BgrToRgb(w) == Shr8(bswap32(w))

\* The header committed by pvr_dr_get / pvr_poly_compile / pvr_dr_put
Header ==
    [kind |-> "hdr", list |-> "PVR_LIST_OP_POLY",
     depth |-> "PVR_DEPTHCMP_GEQUAL", culling |-> "PVR_CULLING_NONE"]

\* The vertex committed by pvr_dr_get / *v = (pvr_vertex_t){...} / pvr_dr_put.
\* rx, ry record the int16_t arguments handed to x_to_pvr and y_to_pvr.
Vertex(st, eol, argb, x, y) ==
    [kind |-> "vtx",
     flags |-> IF eol THEN "PVR_CMD_VERTEX_EOL" ELSE "PVR_CMD_VERTEX",
     argb |-> argb, x |-> x_to_pvr(st, x), y |-> y_to_pvr(st, y), z |-> 1,
     rx |-> x, ry |-> y]

\* draw_line: the six vertices of the two triangles of one segment
draw_line(st, x0, y0, color0, x1, y1, color1) ==
    LET up == IF y1 < y0 THEN 1 ELSE 0
        nup == 1 - up
        xcoords == <<x0, x0, ToInt16(x0 + 1), x1, ToInt16(x1 + 1), ToInt16(x1 + 1)>>
        ycoords == <<ToInt16(y0 + up), ToInt16(y0 + nup), ToInt16(y0 + up),
                     ToInt16(y1 + nup), ToInt16(y1 + up), ToInt16(y1 + nup)>>
    IN [i \in 1..6 |->
           Vertex(st, i - 1 = 5, IF i - 1 < 3 THEN color0 ELSE color1,
                  xcoords[i], ycoords[i])]

\* The vertex loop of the polygon case (lines 273..296); buf is the index
\* in pbuffer.U4 the pointer buf is at.
RECURSIVE poly_loop(_, _, _, _, _, _, _)
poly_loop(st, pb, i, nb, multicolor, buf, color) ==
    IF i >= nb THEN <<>>
    ELSE LET take == (i = 0) \/ multicolor
             color1 == IF take THEN BgrToRgb(pb[buf + 1]) ELSE color
             buf1 == IF take THEN buf + 1 ELSE buf
             val == pb[buf1 + 1]
             x == S16(val.lo)
             y == S16(val.hi)
         IN <<Vertex(st, i = nb - 1, color1, x, y)>>
            \o poly_loop(st, pb, i + 1, nb, multicolor, buf1 + 1, color1)

\* mutant: the quad bit of the opcode ignored, every polygon a triangle
poly_case_Tri(st, op, pb) ==
    <<Header>> \o poly_loop(st, pb, 0, 3, (op \div 16) % 2 = 1, 0, W(0, 0))

\* case 0x20, 0x28, 0x30, 0x38
poly_case(st, op, pb) ==
    LET multicolor == (op \div 16) % 2 = 1
        poly4 == (op \div 8) % 2 = 1
        nb == 3 + (IF poly4 THEN 1 ELSE 0)
    IN <<Header>> \o poly_loop(st, pb, 0, nb, multicolor, 0, W(0, 0))

\* mutant: the end points swapped for the call of draw_line, their colors not
line_case_ColorNotSwapped(st, op, pb) ==
    LET multicolor == (op \div 16) % 2 = 1
        oldcolor == BgrToRgb(pb[1])
        oldx == S16(pb[2].lo)
        oldy == S16(pb[2].hi)
        color == IF multicolor THEN BgrToRgb(pb[3]) ELSE oldcolor
        val == IF multicolor THEN pb[4] ELSE pb[3]
        x == S16(val.lo)
        y == S16(val.hi)
    IN <<Header>> \o
       (IF oldx > x THEN draw_line(st, x, y, oldcolor, oldx, oldy, color)
                    ELSE draw_line(st, oldx, oldy, oldcolor, x, y, color))

\* case 0x40, 0x50 (nb = 2: the segment loop runs once)
line_case(st, op, pb) ==
    LET multicolor == (op \div 16) % 2 = 1
        oldcolor == BgrToRgb(pb[1])
        oldx == S16(pb[2].lo)
        oldy == S16(pb[2].hi)
        color == IF multicolor THEN BgrToRgb(pb[3]) ELSE oldcolor
        val == IF multicolor THEN pb[4] ELSE pb[3]
        x == S16(val.lo)
        y == S16(val.hi)
    IN <<Header>> \o
       (IF oldx > x THEN draw_line(st, x, y, color, oldx, oldy, oldcolor)
                    ELSE draw_line(st, oldx, oldy, oldcolor, x, y, color))

\* case 0x60
rect_case(st, pb) ==
    LET color == BgrToRgb(pb[1])
        x0 == S16(pb[2].lo)
        y0 == S16(pb[2].hi)
        x1 == ToInt16(x0 + S16(pb[3].lo))
        y1 == ToInt16(y0 + S16(pb[3].hi))
        xs == <<x0, x1>>
        ys == <<y0, y1>>
    IN <<Header>> \o
       [i \in 1..4 |->
           Vertex(st, i - 1 = 3, color,
                  xs[1 + ((i - 1) % 2)], ys[1 + (((i - 1) \div 2) % 2)])]

----------------------------------------------------------------------------
(* The switch of do_cmd_list (lines 191..408): the new GPU state and the   *)
(* headers and vertices the command submits.  pb is pbuffer.U4, 1-based.   *)

\* cmd_clear_image: the rectangle of a fill, as left in x0, y0, w0, h0
cmd_clear_image(pb) ==
    LET x0 == pb[2].lo % 1024
        y0 == pb[2].hi % 512
        w0 == (((pb[3].lo - 1) % 65536) % 1024) + 1
        h0 == (((pb[3].hi - 1) % 65536) % 512) + 1
    IN [x0 |-> (x0 + 14) % 16, y0 |-> y0, w0 |-> (w0 + 14) % 16, h0 |-> h0]

\* gput_fill(w, h) of gpulib's gpu_timing.h: the cycle estimate of a fill
gput_fill(w, h) == 23 + ((4 + (w \div 16)) * h)

\* gput_sum(sum, cnt, new_cycles) of gpulib's gpu_timing.h:
\* sum += cnt; cnt = new_cycles
gput_sum(sum, cnt, new_cycles) == [sum |-> sum + cnt, cnt |-> new_cycles]

\* mutant: the width and the height of the fill taken from each other's half
case_fill_Swapped(pb, sum, cnt) ==
    gput_sum(sum, cnt, gput_fill(pb[3].hi % 1024, pb[3].lo % 512))

\* case 0x02 (lines 192..197); the rectangle cmd_clear_image computes is
\* dropped (its cache invalidation is a TODO)
case_fill(pb, sum, cnt) == gput_sum(sum, cnt, gput_fill(pb[3].lo % 1024, pb[3].hi % 512))

\* mutant: the whole word stored, not its low 11 bits
case_e1_NoMask(st, pb) == [st EXCEPT !.gp1 = pb[1]]

\* case 0xe1: set texture page
case_e1(st, pb) == [st EXCEPT !.gp1 = MergeLow(st.gp1, pb[1], 11)]

\* case 0xe3: top-left corner of the drawing area
case_e3(st, pb) ==
    [st EXCEPT !.draw_x1 = Field(pb[1], 0, 10), !.draw_y1 = Field(pb[1], 10, 9)]

\* mutant: the 0xe4 case a copy of the 0xe3 case, writing the top-left corner
case_e4_CopyPaste(st, pb) ==
    [st EXCEPT !.draw_x1 = Field(pb[1], 0, 10), !.draw_y1 = Field(pb[1], 10, 9)]

\* case 0xe4: bottom-right corner of the drawing area
case_e4(st, pb) ==
    [st EXCEPT !.draw_x2 = Field(pb[1], 0, 10), !.draw_y2 = Field(pb[1], 10, 9)]

\* mutant: dy taken one bit too low (<< 11 for << 10)
case_e5_WrongShift(st, pb) ==
    [st EXCEPT !.draw_dx = ToInt16(Sar32(Shl32(pb[1], 21), 21)),
               !.draw_dy = ToInt16(Sar32(Shl32(pb[1], 11), 21))]

\* case 0xe5: drawing offsets
case_e5(st, pb) ==
    [st EXCEPT !.draw_dx = ToInt16(Sar32(Shl32(pb[1], 21), 21)),
               !.draw_dy = ToInt16(Sar32(Shl32(pb[1], 10), 21))]

\* case 0xe6: VRAM mask settings
case_e6(st, pb) ==
    [st EXCEPT !.set_mask = Field(pb[1], 0, 1), !.check_mask = Field(pb[1], 1, 1)]

switch_state(st, op, pb) ==
    CASE op = 225 -> case_e1(st, pb)
      [] op = 227 -> case_e3(st, pb)
      [] op = 228 -> case_e4(st, pb)
      [] op = 229 -> case_e5(st, pb)
      [] op = 230 -> case_e6(st, pb)
      [] OTHER -> st

\* mutant: the 0x21 variant drawn as the 0x20 polygon
switch_items_Variant(st, op, pb) ==
    CASE op \in {32, 33, 40, 48, 56} -> poly_case(st, op, pb)
      [] op \in {64, 80} -> line_case(st, op, pb)
      [] op = 96 -> rect_case(st, pb)
      [] OTHER -> <<>>

\* mutant: a cost accounted for the polygons too
switch_cycles_PolyCost(op, pb, sum, cnt) ==
    IF op = 2 THEN case_fill(pb, sum, cnt)
    ELSE IF op \in {32, 40, 48, 56} THEN gput_sum(sum, cnt, 64)
    ELSE [sum |-> sum, cnt |-> cnt]

switch_cycles(op, pb, sum, cnt) ==
    IF op = 2 THEN case_fill(pb, sum, cnt) ELSE [sum |-> sum, cnt |-> cnt]

switch_items(st, op, pb) ==
    CASE op \in {32, 40, 48, 56} -> poly_case(st, op, pb)
      [] op \in {64, 80} -> line_case(st, op, pb)
      [] op = 96 -> rect_case(st, pb)
      [] OTHER -> <<>>

----------------------------------------------------------------------------
(* do_cmd_list *)

\* the words list_start[0 .. list_len) of the current call
List == SubSeq(stream, fed + 1, fed + list_len)

\* cmd = *list >> 24
Opcode(w) == w.hi \div 256

\* mutant: the test of line 183 off by one, which refuses a command that
\* ends exactly at list_end
Truncated_OffByOne(p, len, n) == p + 1 + len >= n

\* line 183: list + 1 + len > list_end
Truncated(p, len, n) == p + 1 + len > n

\* line 179: list += 1 + len
Advance(p, len) == p + 1 + len

\* mutant: the whole buffer reported as consumed
ReturnValue_ListLen(p, n) == n

\* line 417: return list - list_start
ReturnValue(p, n) == p

\* lines 411..412: gpu.ex_regs[1] &= ~0x1ff; gpu.ex_regs[1] |= pvr.gp1 & 0x1ff
WriteBack(ex, gp1) == MergeLow(ex, gp1, 9)

\* The caller hands the next n pending words to do_cmd_list, starting at the
\* consumed-word offset of the previous call (lines 172..177).
Call(n) ==
    /\ pc \in {"idle", "done"}
    /\ scene = "closed"
    /\ ncalls < MaxCalls
    /\ n \in 0..(Len(stream) - (fed + ret))
    /\ fed' = fed + ret
    /\ ncalls' = ncalls + 1
    /\ list_len' = n
    /\ pos' = 0
    /\ cmd' = W(0, 0)
    /\ cpu_cycles_sum' = 0
    /\ cpu_cycles' = cycles_last
    /\ pc' = "loop"
    /\ ex_hist' = Append(ex_hist, ex_regs1)
    /\ lens' = Append(lens, n)
    /\ dispatched' = <<>>
    /\ UNCHANGED <<stream, pvr, ex_regs1, last_cmd, cycles_sum_out, cycles_last,
                   ret, rets, out, last_e3, last_e5, scene>>

\* One iteration of the for loop with a complete command (lines 179..409)
LoopBody ==
    /\ pc = "loop"
    /\ pos < list_len
    /\ LET op == Opcode(List[pos + 1])
           len == cmd_lengths(op)
           pb == SubSeq(List, pos + 1, pos + 1 + len)
       IN /\ ~Truncated(pos, len, list_len)
          /\ cmd' = W(0, op)
          /\ pvr' = switch_state(pvr, op, pb)
          /\ out' = out \o switch_items(pvr, op, pb)
          /\ cpu_cycles_sum' = switch_cycles(op, pb, cpu_cycles_sum, cpu_cycles).sum
          /\ cpu_cycles' = switch_cycles(op, pb, cpu_cycles_sum, cpu_cycles).cnt
          /\ pos' = Advance(pos, len)
          /\ dispatched' = Append(dispatched, [at |-> pos, op |-> op])
          /\ last_e3' = IF op = 227 THEN pb[1] ELSE last_e3
          /\ last_e5' = IF op = 229 THEN pb[1] ELSE last_e5
    /\ UNCHANGED <<stream, fed, ncalls, list_len, pc, ex_regs1, ex_hist,
                   last_cmd, cycles_sum_out, cycles_last, ret, rets, lens, scene>>

\* The partial command at the end of the buffer (lines 183..186)
LoopBreak ==
    /\ pc = "loop"
    /\ pos < list_len
    /\ Truncated(pos, cmd_lengths(Opcode(List[pos + 1])), list_len)
    /\ cmd' = W(65535, 65535)
    /\ pc' = "break"
    /\ UNCHANGED <<stream, fed, ncalls, list_len, pos, pvr, ex_regs1, ex_hist,
                   last_cmd, cycles_sum_out, cycles_last, cpu_cycles_sum, cpu_cycles,
                   ret, rets, lens, out, dispatched, last_e3, last_e5, scene>>

\* After the loop (lines 411..417)
Exit ==
    /\ \/ pc = "loop" /\ pos >= list_len
       \/ pc = "break"
    /\ ex_regs1' = WriteBack(ex_regs1, pvr.gp1)
    /\ cycles_sum_out' = cycles_sum_out + cpu_cycles_sum
    /\ cycles_last' = cpu_cycles
    /\ last_cmd' = ToInt32(cmd)
    /\ ret' = ReturnValue(pos, list_len)
    /\ rets' = Append(rets, ReturnValue(pos, list_len))
    /\ pc' = "done"
    /\ UNCHANGED <<stream, fed, ncalls, list_len, pos, cmd, pvr, ex_hist, lens,
                   cpu_cycles_sum, cpu_cycles, out, dispatched, last_e3, last_e5,
                   scene>>

\* dc_vout_flip (src/src/platform.c) up to line 192: the frame copied to the
\* texture, then pvr_wait_ready, pvr_scene_begin, pvr_list_begin.  The
\* emulator calls it between two command lists; with vram = NULL it returns
\* at once and changes nothing.
FlipBegin ==
    /\ pc \in {"idle", "done"}
    /\ scene = "closed"
    /\ scene' = "open"
    /\ UNCHANGED <<stream, fed, ncalls, list_len, pos, cmd, pc, pvr, ex_regs1,
                   ex_hist, last_cmd, cycles_sum_out, cycles_last, cpu_cycles_sum,
                   cpu_cycles, ret, rets, lens, out, dispatched, last_e3, last_e5>>

\* dc_vout_flip from line 194 on: the textured quad of the frame through
\* pvr_prim, then pvr_list_finish, pvr_scene_finish
FlipFinish ==
    /\ scene = "open"
    /\ scene' = "closed"
    /\ UNCHANGED <<stream, fed, ncalls, list_len, pos, cmd, pc, pvr, ex_regs1,
                   ex_hist, last_cmd, cycles_sum_out, cycles_last, cpu_cycles_sum,
                   cpu_cycles, ret, rets, lens, out, dispatched, last_e3, last_e5>>

\* The loop of do_cmd_list run to its end (lines 179..409) on the buffer buf
\* from offset p, with the locals cmd = c, cpu_cycles_sum = sum, cpu_cycles = cnt
RECURSIVE cmd_loop(_, _, _, _, _, _)
cmd_loop(st, buf, p, c, sum, cnt) ==
    IF p >= Len(buf)
    THEN [pvr |-> st, items |-> <<>>, pos |-> p, cmd |-> c, sum |-> sum, cnt |-> cnt]
    ELSE LET op == Opcode(buf[p + 1])
             len == cmd_lengths(op)
             pb == SubSeq(buf, p + 1, p + 1 + len)
         IN IF Truncated(p, len, Len(buf))
            THEN [pvr |-> st, items |-> <<>>, pos |-> p, cmd |-> W(65535, 65535),
                  sum |-> sum, cnt |-> cnt]
            ELSE LET cy == switch_cycles(op, pb, sum, cnt)
                     rest == cmd_loop(switch_state(st, op, pb), buf, Advance(p, len),
                                      W(0, op), cy.sum, cy.cnt)
                 IN [rest EXCEPT !.items = switch_items(st, op, pb) \o rest.items]

\* One whole call of do_cmd_list on the buffer buf in GPU state st, with
\* *cycles_last = last at entry: the GPU state and the submissions it leaves,
\* its return value, *last_cmd, its addition to *cycles_sum_out and *cycles_last
do_cmd_list(st, buf, last) ==
    LET r == cmd_loop(st, buf, 0, W(0, 0), 0, last)
    IN [pvr |-> r.pvr, items |-> r.items, ret |-> ReturnValue(r.pos, Len(buf)),
        last_cmd |-> ToInt32(r.cmd), cycles_sum |-> r.sum, cycles_last |-> r.cnt]

----------------------------------------------------------------------------
(* The command streams the emulator may have pending *)

\* an opcode word: opcode in the top byte, v in the low 24 bits
OpWord(op, v) == W((op * 256) + (v \div 65536), v % 65536)

\* a coordinate word: y in the high half, x in the low half
XY(x, y) == W(y % 65536, x % 65536)

\* GP0(0xe5) with dx in bits 0..10, dy in bits 11..21, hb in bits 22..23
E5Word(dx, dy, hb) == OpWord(229, (dx % 2048) + ((dy % 2048) * 2048) + (hb * 4194304))

\* a command of opcode op with color bits c and operand words filled from ws
Command(op, c, ws) == <<OpWord(op, c)>> \o SubSeq(ws, 1, cmd_lengths(op))

Operands ==
    <<XY(3, 5), XY(40, 2), XY(7, 30), XY(50, 60), XY(1, 1), XY(2, 2),
      XY(4, 4), XY(8, 8), XY(9, 9), XY(6, 6), XY(5, 5)>>

ShadedOperands ==
    <<XY(3, 5), W(43776, 4660), XY(7, 30), W(52479, 65280), XY(1, 1),
      W(4386, 13124), XY(8, 8)>>

\* the general universe, from which every stream of up to MaxCmds commands
\* is built
BaseCmds ==
    { Command(2, 1193046, Operands),              \* fill
      <<OpWord(225, 1701)>>,                      \* texture page 0x6a5
      <<OpWord(227, (20 * 1024) + 10)>>,          \* top-left (10, 20)
      <<E5Word(-5, 7, 0)>>,                       \* offset (-5, 7)
      <<OpWord(0, 0)>>,                           \* NOP
      Command(32, 1122867, Operands),             \* flat triangle
      Command(64, 255, Operands),                 \* line
      Command(96, 65280, Operands) }              \* rectangle

RECURSIVE CmdSeqs(_)
CmdSeqs(n) ==
    IF n = 0 THEN {<<>>}
    ELSE LET shorter == CmdSeqs(n - 1)
         IN shorter \cup {s \o c : s \in shorter, c \in BaseCmds}

\* every opcode, after the clip corner and the offset were set and before
\* one more command
StatePrefix == <<OpWord(227, (20 * 1024) + 10), E5Word(-5, 7, 0)>>

OpcodeStreams ==
    {StatePrefix \o Command(op, 1122867, ShadedOperands \o Operands) \o <<OpWord(230, 3)>> :
        op \in 0..255}

\* the state registers set, then commands that are not theirs, then a drawing
PersistStreams ==
    {<<OpWord(227, (20 * 1024) + 10)>> \o a \o <<OpWord(0, 0)>> \o b \o d :
        a \in {<<>>, <<E5Word(-5, 7, 0)>>},
        b \in {<<>>, <<OpWord(227, (3 * 1024) + 4)>>, <<E5Word(100, -200, 0)>>},
        d \in {Command(32, 1122867, Operands), Command(80, 255, ShadedOperands),
               Command(96, 65280, Operands)}}

\* drawing offsets at and around the ends of the 11-bit range
OffsetValues == {-1024, -1023, -5, -1, 0, 7, 1022, 1023}

OffsetStreams ==
    {<<E5Word(dx, dy, hb)>> \o Command(32, 0, Operands) :
        dx \in OffsetValues, dy \in OffsetValues, hb \in {0, 3}}

\* colors, as the low 24 bits of a word
ColorValues == {0, 1122867, 255, 65280, 16711680, 16777215}

DrawOpcodes == {32, 40, 48, 56, 64, 80, 96}

ColorStreams ==
    {Command(op, c, [Operands EXCEPT ![2] = OpWord(171, 16777215 - c),
                                     ![4] = OpWord(205, (c + 1193046) % 16777216),
                                     ![6] = OpWord(18, 255)]) :
        op \in DrawOpcodes, c \in ColorValues}

\* line end points at and around the ends of the 16-bit range
CoordValues == {0, 10, 32767, -32768}

LineStreams ==
    {<<OpWord(64, 255), XY(xa, ya), XY(xb, yb)>> :
        xa \in CoordValues, ya \in CoordValues, xb \in CoordValues, yb \in CoordValues}
    \cup
    {<<OpWord(80, 255), XY(xa, ya), OpWord(0, 65280), XY(xb, yb)>> :
        xa \in CoordValues, ya \in CoordValues, xb \in CoordValues, yb \in CoordValues}

\* rectangles whose origin and size are at the ends of the 16-bit range
RectStreams ==
    {<<OpWord(96, 65280), XY(x, y), XY(w, h)>> :
        x \in CoordValues, w \in CoordValues, y \in {10, 32767}, h \in {10, 32767}}

\* the state commands with all 24 operand bits set
RangeStreams == {<<OpWord(op, 16777215)>> : op \in 225..230}

Streams ==
    CmdSeqs(MaxCmds) \cup OpcodeStreams \cup PersistStreams \cup OffsetStreams
    \cup ColorStreams \cup LineStreams \cup RectStreams \cup RangeStreams

\* What the caller holds at the start: gpu.ex_regs[1] (gpulib's, reset to
\* 0xe1000000) and the cycle count left by the commands before this stream
CallerInit ==
    {[ex_regs1 |-> W(57600, 0), cycles_last |-> 0],
     [ex_regs1 |-> W(57600, 6144), cycles_last |-> 7]}

----------------------------------------------------------------------------

Init ==
    /\ stream \in Streams
    /\ \E c \in CallerInit : ex_regs1 = c.ex_regs1 /\ cycles_last = c.cycles_last
    /\ cycles_sum_out = 0
    /\ cpu_cycles_sum = 0
    /\ cpu_cycles = 0
    /\ ex_hist = <<>>
    /\ pvr = renderer_init
    /\ fed = 0
    /\ ncalls = 0
    /\ list_len = 0
    /\ pos = 0
    /\ cmd = W(0, 0)
    /\ pc = "idle"
    /\ last_cmd = 0
    /\ ret = 0
    /\ rets = <<>>
    /\ lens = <<>>
    /\ out = <<>>
    /\ dispatched = <<>>
    /\ last_e3 = W(0, 0)
    /\ last_e5 = W(0, 0)
    /\ scene = "closed"

Next ==
    \/ \E n \in 0..Len(stream) : Call(n)
    \/ LoopBody
    \/ LoopBreak
    \/ Exit
    \/ FlipBegin
    \/ FlipFinish

Spec == Init /\ [][Next]_vars

----------------------------------------------------------------------------
(* The command structure of a buffer, by the protocol: a command is one    *)
(* opcode word followed by cmd_lengths[opcode] operand words.              *)

\* number of words of the command that starts at word p + 1 of buf
CommandWords(buf, p) == 1 + cmd_lengths(buf[p + 1].hi \div 256)

\* the [at, op] of the complete commands of buf from offset p on
RECURSIVE Commands(_, _)
Commands(buf, p) ==
    IF p >= Len(buf) \/ p + CommandWords(buf, p) > Len(buf) THEN <<>>
    ELSE <<[at |-> p, op |-> buf[p + 1].hi \div 256]>>
         \o Commands(buf, p + CommandWords(buf, p))

\* the offset at which the complete commands of buf end
RECURSIVE CompleteEnd(_, _)
CompleteEnd(buf, p) ==
    IF p >= Len(buf) \/ p + CommandWords(buf, p) > Len(buf) THEN p
    ELSE CompleteEnd(buf, p + CommandWords(buf, p))

\* buf is a concatenation of complete commands
IsComplete(buf) == CompleteEnd(buf, 0) = Len(buf)

\* the number of words present of the truncated command that ends buf
TailWords(buf) == Len(buf) - CompleteEnd(buf, 0)

----------------------------------------------------------------------------
(* C1: a call on a buffer that is a concatenation of complete commands     *)
(* returns list_len and has dispatched the commands one at a time in       *)
(* buffer order, each at the offset of the previous one plus 1 + its       *)
(* operand count; while the call runs, what it has dispatched is a prefix  *)
(* of that sequence.                                                       *)
C1_Completeness ==
    /\ (pc = "done" /\ IsComplete(List)) =>
          /\ ret = list_len
          /\ dispatched = Commands(List, 0)
    /\ (pc = "loop" /\ IsComplete(List)) =>
          /\ Len(dispatched) <= Len(Commands(List, 0))
          /\ dispatched = SubSeq(Commands(List, 0), 1, Len(dispatched))

C1_Witness ==
    /\ pc = "done"
    /\ IsComplete(List)
    /\ Len(dispatched) = 2
    /\ dispatched[2].at = 4
    /\ ret = list_len
    /\ list_len = 7

\* the loop is at a command that does not fit in the buffer, or has left on it
C2_AtTruncated ==
    \/ pc = "break"
    \/ /\ pc = "loop"
       /\ pos < list_len
       /\ pos + CommandWords(List, pos) > list_len

(* C2: a call on a buffer whose last command is truncated returns list_len *)
(* minus the number of words present of that command and sets *last_cmd to *)
(* -1; from the moment the loop meets the truncated command to the return, *)
(* no GPU state field changes and nothing is submitted.                    *)
C2_PartialCommand ==
    /\ [](pc = "done" /\ ~IsComplete(List) =>
            /\ ret = list_len - TailWords(List)
            /\ last_cmd = -1)
    /\ [][C2_AtTruncated => (pvr' = pvr /\ out' = out /\ pc' \in {"break", "done"})]_vars

C2_Witness ==
    /\ pc = "done"
    /\ TailWords(List) = 2
    /\ ret = 3
    /\ list_len = 5
    /\ last_cmd = -1
    /\ Len(out) = 5


\* the second call, given the whole rest of a stream of complete commands,
\* has returned
C3_SecondCallDone ==
    /\ ncalls = 2
    /\ pc = "done"
    /\ IsComplete(stream)
    /\ lens[2] = Len(stream) - rets[1]

(* C3: for a stream S of complete commands and any split point k, the call *)
(* on S[0..k) followed by the call on the rest of S from the offset the    *)
(* first call returned leaves the GPU state, gpu.ex_regs[1] and the        *)
(* submitted headers and vertices as one call on the whole of S does, and  *)
(* the two returned counts add up to the length of S.                      *)
C3_Resumption ==
    C3_SecondCallDone =>
        LET single == do_cmd_list(renderer_init, stream, 0)
        IN /\ pvr = single.pvr
           /\ out = single.items
           /\ ex_regs1 = WriteBack(ex_hist[1], single.pvr.gp1)
           /\ rets[1] + rets[2] = Len(stream)
           /\ single.ret = Len(stream)

C3_Witness ==
    /\ C3_SecondCallDone
    /\ lens[1] = 3
    /\ rets[1] = 1
    /\ rets[2] = 3
    /\ Len(out) = 5
    /\ pvr.draw_x1 = 10

----------------------------------------------------------------------------
(* Steps of the loop, for the properties of single commands *)

\* this step is a loop iteration that dispatches a complete command
Dispatching == pc = "loop" /\ pos' > pos

\* the opcode and the packet of the command at the current offset
StepOp == List[pos + 1].hi \div 256
StepPacket == SubSeq(List, pos + 1, pos + CommandWords(List, pos))

\* what this step submits
Emitted == SubSeq(out', Len(out) + 1, Len(out'))
EmittedVertices == SelectSeq(Emitted, LAMBDA e : e.kind = "vtx")

\* the value of an 11-bit two's-complement field
SignExtend11(u) == IF u >= 1024 THEN u - 2048 ELSE u

(* C4: every vertex is submitted at (raw_x + draw_dx - draw_x1,            *)
(* raw_y + draw_dy - draw_y1) with the values of the most recent 0xe3 and  *)
(* 0xe5 commands (zero when there was none), whatever commands and calls   *)
(* came in between.                                                        *)
C4_Persistence ==
    [][\A i \in 1..Len(Emitted) :
          Emitted[i].kind = "vtx" =>
             /\ Emitted[i].x = (Emitted[i].rx + SignExtend11(last_e5.lo % 2048))
                               - (last_e3.lo % 1024)
             /\ Emitted[i].y = (Emitted[i].ry
                                + SignExtend11((last_e5.lo \div 2048) + ((last_e5.hi % 64) * 32)))
                               - ((last_e3.lo \div 1024) + ((last_e3.hi % 8) * 64))]_vars

C4_Witness ==
    /\ ncalls = 2
    /\ rets = <<2>>
    /\ last_e3 = OpWord(227, (20 * 1024) + 10)
    /\ last_e5 = W(0, 0)
    /\ dispatched = <<[at |-> 0, op |-> 32]>>
    /\ Len(out) = 4
    /\ out[2].rx = 3 /\ out[2].x = -7
    /\ out[2].ry = 5 /\ out[2].y = -15

(* C5: a 0xe5 command leaves in draw_dx and draw_dy the values of the      *)
(* 11-bit two's-complement fields in bits 0..10 and 11..21 of its word;    *)
(* for the word that encodes (dx, dy), with any bits 22..23, these are dx  *)
(* and dy.                                                                 *)
C5_OffsetSignExtension ==
    [][(Dispatching /\ StepOp = 229) =>
          LET w == List[pos + 1]
          IN /\ pvr'.draw_dx = SignExtend11(w.lo % 2048)
             /\ pvr'.draw_dy = SignExtend11((w.lo \div 2048) + ((w.hi % 64) * 32))
             /\ \A dx \in OffsetValues, dy \in OffsetValues, hb \in {0, 3} :
                   w = E5Word(dx, dy, hb) => (pvr'.draw_dx = dx /\ pvr'.draw_dy = dy)]_vars

C5_Witness ==
    /\ last_e5 = E5Word(-1024, 1023, 3)
    /\ pvr.draw_dx = -1024
    /\ pvr.draw_dy = 1023

\* 0x00RRGGBB with RR = bits 0..7, GG = bits 8..15, BB = bits 16..23 of w
ExpectedColor(w) == W(w.lo % 256, ((w.lo \div 256) * 256) + (w.hi % 256))

\* the color words of a drawing command's packet
ColorWords(op, pb) ==
    CASE op = 48 -> {pb[1], pb[3], pb[5]}
      [] op = 56 -> {pb[1], pb[3], pb[5], pb[7]}
      [] op = 80 -> {pb[1], pb[3]}
      [] OTHER -> {pb[1]}

(* C6: the colors on the vertices of a polygon, line or rectangle command  *)
(* are those of the color words the command consumes, each with red =      *)
(* bits 0..7, green = bits 8..15, blue = bits 16..23 of the word laid out  *)
(* as 0x00RRGGBB.                                                          *)
C6_ColorConversion ==
    [][(Dispatching /\ StepOp \in DrawOpcodes) =>
          /\ Len(EmittedVertices) > 0
          /\ {EmittedVertices[i].argb : i \in 1..Len(EmittedVertices)}
             = {ExpectedColor(w) : w \in ColorWords(StepOp, StepPacket)}]_vars

C6_Witness ==
    /\ Len(stream) = 6
    /\ stream[1] = OpWord(48, 1122867)
    /\ Len(out) = 4
    /\ out[2].argb = W(51, 8721)
    /\ out[3].argb = W(204, 56814)

\* the raw position of v is the point e or one pixel right of or below it
InBand(v, e) == v.rx \in {e[1], e[1] + 1} /\ v.ry \in {e[2], e[2] + 1}

\* the two end points of a line command, in command order
LineEnds(op, pb) ==
    LET second == IF op = 80 THEN pb[4] ELSE pb[3]
    IN <<<<S16(pb[2].lo), S16(pb[2].hi)>>, <<S16(second.lo), S16(second.hi)>>>>

\* what this step submits is a header and the six vertices of a segment
LineShape(ends) ==
    /\ Len(Emitted) = 7
    /\ Emitted[1].kind = "hdr"
    /\ Len(EmittedVertices) = 6
    /\ \A i \in 1..6 : (EmittedVertices[i].flags = "PVR_CMD_VERTEX_EOL") <=> (i = 6)
    /\ \E a \in 1..2 :
          /\ \A i \in 1..3 : InBand(EmittedVertices[i], ends[a])
          /\ \A i \in 4..6 : InBand(EmittedVertices[i], ends[3 - a])

(* C7: a complete 0x40 or 0x50 command submits one header and then six    *)
(* vertices, the sixth alone flagged end-of-run, the first three within    *)
(* one pixel right of and below one end point and the last three within    *)
(* one pixel right of and below the other.                                 *)
C7_LineExpansion ==
    [][(Dispatching /\ StepOp \in {64, 80}) => LineShape(LineEnds(StepOp, StepPacket))]_vars

\* the same, for the end points whose x + 1 and y + 1 are int16_t values
C7_LineExpansionBelowMax ==
    [][(Dispatching /\ StepOp \in {64, 80}) =>
          LET ends == LineEnds(StepOp, StepPacket)
          IN (\A a \in 1..2, c \in 1..2 : ends[a][c] < 32767) => LineShape(ends)]_vars

\* the opcodes the switch gives an effect
Implemented == {2, 225, 227, 228, 229, 230, 32, 40, 48, 56, 64, 80, 96}

\* the loop is at a command that fits in the buffer
AtCompleteCommand ==
    /\ pc = "loop"
    /\ pos < list_len
    /\ pos + CommandWords(List, pos) <= list_len

(* C8: a complete command whose opcode the switch does not implement is    *)
(* dispatched without effect: the loop advances by 1 + cmd_lengths[opcode] *)
(* and goes on, no GPU state field changes and nothing is submitted.       *)
C8_UnknownOpcodes ==
    [][(AtCompleteCommand /\ StepOp \notin Implemented) =>
          /\ pos' = pos + CommandWords(List, pos)
          /\ pc' = "loop"
          /\ cmd' = W(0, StepOp)
          /\ pvr' = pvr
          /\ out' = out]_vars

C8_Witness ==
    /\ pc = "done"
    /\ dispatched = <<[at |-> 0, op |-> 227], [at |-> 1, op |-> 229],
                      [at |-> 2, op |-> 255], [at |-> 3, op |-> 230]>>
    /\ ret = 4
    /\ out = <<>>
    /\ pvr.draw_x1 = 10
    /\ pvr.draw_dx = -5
    /\ pvr.set_mask = 1

\* the opcode that writes field f of pvr
Writer(f) ==
    CASE f = "gp1" -> 225
      [] f \in {"draw_x1", "draw_y1"} -> 227
      [] f \in {"draw_x2", "draw_y2"} -> 228
      [] f \in {"draw_dx", "draw_dy"} -> 229
      [] f \in {"set_mask", "check_mask"} -> 230

(* C9: gp1 changes only in a 0xe1 command, draw_x1 and draw_y1 only in     *)
(* 0xe3, draw_x2 and draw_y2 only in 0xe4, draw_dx and draw_dy only in     *)
(* 0xe5, set_mask and check_mask only in 0xe6; each of these commands      *)
(* changes no other field, and the fill, polygon, line and rectangle       *)
(* commands change none.                                                   *)
C9_DesignatedWriter ==
    [][/\ \A f \in DOMAIN pvr :
             pvr'[f] # pvr[f] => (Dispatching /\ StepOp = Writer(f))
       /\ (Dispatching /\ StepOp \in {2} \cup DrawOpcodes) => pvr' = pvr]_vars

C9_Witness ==
    /\ pvr.gp1 = W(5248, 8192)
    /\ pvr.draw_x1 = 10 /\ pvr.draw_y1 = 20
    /\ pvr.draw_x2 = 563 /\ pvr.draw_y2 = 72
    /\ pvr.draw_dx = -5 /\ pvr.draw_dy = 7
    /\ pvr.set_mask = 1 /\ pvr.check_mask = 1

(* C10: when a call has returned, the low 11 bits of gpu.ex_regs[1] are    *)
(* those of gp1 (the texture page bits of the last 0xe1 command), and the  *)
(* other bits of the register are as they were when the call was entered.  *)
C10_StatusWriteBack ==
    pc = "done" =>
        /\ ex_regs1.lo % 2048 = pvr.gp1.lo % 2048
        /\ ex_regs1.lo \div 2048 = ex_hist[ncalls].lo \div 2048
        /\ ex_regs1.hi = ex_hist[ncalls].hi

\* what lines 411..412 do: the low 9 bits written, bits 9..31 kept
C10_LowNineBits ==
    pc = "done" =>
        /\ ex_regs1.lo % 512 = pvr.gp1.lo % 512
        /\ ex_regs1.lo \div 512 = ex_hist[ncalls].lo \div 512
        /\ ex_regs1.hi = ex_hist[ncalls].hi

----------------------------------------------------------------------------
(* The return of a call, for the properties of its results *)

\* this step is the return of the call (lines 411..417)
ExitStep == pc \in {"loop", "break"} /\ pc' = "done"

\* the commands of buf, from the protocol
AllCommands == Commands(List, 0)

(* C11: when a call has returned: if its buffer was not empty and was      *)
(* consumed exactly, *last_cmd is the opcode of the last command and the   *)
(* return value is list_len; if the buffer ends on a truncated command,    *)
(* *last_cmd is -1 and the return value is below list_len; in every case   *)
(* the return value is list_len exactly when *last_cmd is not -1, and it   *)
(* lies in 0..list_len.                                                    *)
C11_LastOpcode ==
    pc = "done" =>
        /\ (IsComplete(List) /\ list_len > 0) =>
              /\ last_cmd = AllCommands[Len(AllCommands)].op
              /\ ret = list_len
        /\ ~IsComplete(List) => (last_cmd = -1 /\ ret < list_len)
        /\ (ret = list_len) <=> (last_cmd # -1)
        /\ 0 <= ret /\ ret <= list_len

C11_Witness ==
    /\ pc = "done"
    /\ Len(stream) = 4
    /\ list_len = 3
    /\ ret = 3
    /\ last_cmd = 255

(* C12: every header or vertex a polygon, line or rectangle command        *)
(* submits is submitted while a scene is open, that is after a             *)
(* pvr_scene_begin / pvr_list_begin and before the pvr_list_finish /       *)
(* pvr_scene_finish that matches it, and a scene is opened only when none  *)
(* is open.                                                                *)
C12_BatchScoping ==
    [][/\ out' # out => scene = "open"
       /\ (scene' = "open" /\ scene' # scene) => scene = "closed"]_vars

\* the cycle estimate of the fill command at offset at of buf
FillEstimate(buf, at) == gput_fill(buf[at + 3].lo % 1024, buf[at + 3].hi % 512)

\* the fills among the dispatched commands ds
Fills(ds) == SelectSeq(ds, LAMBDA d : d.op = 2)

\* the sum of the estimates of the fills among ds; the other opcodes have
\* no estimate in the switch
RECURSIVE FillCosts(_, _)
FillCosts(buf, ds) ==
    IF ds = <<>> THEN 0
    ELSE (IF Head(ds).op = 2 THEN FillEstimate(buf, Head(ds).at) ELSE 0)
         + FillCosts(buf, Tail(ds))

C14_MaskFlagsInStatus ==
    (pc = "done" /\ \E i \in 1..Len(dispatched) : dispatched[i].op = 230) =>
        /\ Field(ex_regs1, 11, 1) = pvr.set_mask
        /\ Field(ex_regs1, 12, 1) = pvr.check_mask

\* what this step submits is the header and the vertices of the polygon op
PolyShape(op, pb) ==
    LET nb == IF op \in {40, 56} THEN 4 ELSE 3
        shaded == op \in {48, 56}
    IN /\ Len(Emitted) = 1 + nb
       /\ Emitted[1].kind = "hdr"
       /\ \A i \in 0..(nb - 1) :
             LET v == Emitted[i + 2]
                 cw == IF shaded THEN pb[(2 * i) + 1] ELSE pb[1]
                 xy == IF shaded THEN pb[(2 * i) + 2] ELSE pb[i + 2]
             IN /\ v.kind = "vtx"
                /\ (v.flags = "PVR_CMD_VERTEX_EOL") <=> (i = nb - 1)
                /\ v.argb = ExpectedColor(cw)
                /\ v.rx = S16(xy.lo)
                /\ v.ry = S16(xy.hi)

(* C15: a complete 0x20, 0x28, 0x30 or 0x38 command submits one header and *)
(* then 3 vertices (0x20, 0x30) or 4 (0x28, 0x38), the last alone flagged  *)
(* end-of-run; for 0x20 and 0x28 every vertex has the converted color of   *)
(* packet word 0 and vertex i the coordinates of word 1 + i; for 0x30 and  *)
(* 0x38 vertex i has the converted color of word 2i and the coordinates    *)
(* of word 2i + 1 (x the signed low half, y the signed high half).         *)
C15_PolygonEmission ==
    [][(Dispatching /\ StepOp \in {32, 40, 48, 56}) => PolyShape(StepOp, StepPacket)]_vars

C15_Witness ==
    /\ pc = "done"
    /\ Len(stream) = 8
    /\ stream[1] = OpWord(56, 255)
    /\ Len(out) = 5
    /\ out[3].argb = W(0, 65535)
    /\ out[4].flags = "PVR_CMD_VERTEX"
    /\ out[5].flags = "PVR_CMD_VERTEX_EOL"
    /\ out[5].rx = 4

\* what this step submits is the header and the four corners of the rectangle
RectShape(pb) ==
    LET x == S16(pb[2].lo)
        y == S16(pb[2].hi)
        w == S16(pb[3].lo)
        h == S16(pb[3].hi)
        corners == <<<<x, y>>, <<x + w, y>>, <<x, y + h>>, <<x + w, y + h>>>>
    IN /\ Len(Emitted) = 5
       /\ Emitted[1].kind = "hdr"
       /\ \A i \in 1..4 :
             LET v == Emitted[i + 1]
             IN /\ v.kind = "vtx"
                /\ (v.flags = "PVR_CMD_VERTEX_EOL") <=> (i = 4)
                /\ v.argb = ExpectedColor(pb[1])
                /\ v.rx = corners[i][1]
                /\ v.ry = corners[i][2]

(* C16: a complete 0x60 command with origin (x, y) and size (w, h), signed *)
(* 16-bit fields, submits one header and then 4 vertices at the raw        *)
(* positions (x, y), (x + w, y), (x, y + h), (x + w, y + h), all of the    *)
(* converted color of packet word 0, the 4th alone flagged end-of-run;     *)
(* for every x, y, w, h, also when x + w or y + h is above 32767.          *)
C16_RectEmission ==
    [][(Dispatching /\ StepOp = 96) => RectShape(StepPacket)]_vars

\* the same, for the rectangles whose x + w and y + h are int16_t values
C16_RectEmissionInRange ==
    [][(Dispatching /\ StepOp = 96) =>
          LET pb == StepPacket
          IN (/\ S16(pb[2].lo) + S16(pb[3].lo) \in -32768..32767
              /\ S16(pb[2].hi) + S16(pb[3].hi) \in -32768..32767) => RectShape(pb)]_vars

\* v is one of the vertices of end point e: at e or one pixel right of or
\* below it, as int16_t values (which of these positions the vertices take
\* is the matter of C7)
OfEndPoint(v, e) ==
    /\ ((v.rx - e[1]) % 65536) \in {0, 1}
    /\ ((v.ry - e[2]) % 65536) \in {0, 1}

\* what this step submits is the segment of the line command op, the end
\* point of smaller x first, each end point with its own color
LineOrder(op, pb) ==
    LET ends == LineEnds(op, pb)
        colors == <<ExpectedColor(pb[1]), ExpectedColor(IF op = 80 THEN pb[3] ELSE pb[1])>>
        first == IF ends[1][1] > ends[2][1] THEN 2 ELSE 1
        second == 3 - first
    IN /\ Len(EmittedVertices) = 6
       /\ ends[first][1] <= ends[second][1]
       /\ EmittedVertices[1].rx = ends[first][1]
       /\ EmittedVertices[4].rx = ends[second][1]
       /\ \A i \in 1..3 :
             /\ OfEndPoint(EmittedVertices[i], ends[first])
             /\ EmittedVertices[i].argb = colors[first]
       /\ \A i \in 4..6 :
             /\ OfEndPoint(EmittedVertices[i], ends[second])
             /\ EmittedVertices[i].argb = colors[second]

(* C17: of the six vertices of a 0x40 or 0x50 command with end points P0   *)
(* (first in the command) and P1, the first three are those of the end     *)
(* point of smaller x and the last three those of the end point of larger  *)
(* x (P0 first when the x are equal), and the vertices of an end point     *)
(* have that end point's color: for 0x50 the color word before its         *)
(* coordinate word, for 0x40 the one color.                                *)
C17_LineEndpointOrder ==
    [][(Dispatching /\ StepOp \in {64, 80}) => LineOrder(StepOp, StepPacket)]_vars

C17_Witness ==
    /\ pc = "done"
    /\ stream = <<OpWord(80, 255), XY(10, 0), OpWord(0, 65280), XY(0, 10)>>
    /\ Len(out) = 7
    /\ out[2].rx = 0 /\ out[2].argb = W(0, 65280)
    /\ out[5].rx = 10 /\ out[5].argb = W(255, 0)

(* C18: in every state, draw_x1 and draw_x2 are in 0..1023, draw_y1 and    *)
(* draw_y2 in 0..511, draw_dx and draw_dy in -1024..1023, set_mask and     *)
(* check_mask in {0, 1}, and the bits of gp1 above the low 11 are those of *)
(* 0x14802000.                                                             *)
C18_StateRange ==
    /\ pvr.draw_x1 \in 0..1023 /\ pvr.draw_x2 \in 0..1023
    /\ pvr.draw_y1 \in 0..511 /\ pvr.draw_y2 \in 0..511
    /\ pvr.draw_dx \in -1024..1023 /\ pvr.draw_dy \in -1024..1023
    /\ pvr.set_mask \in {0, 1} /\ pvr.check_mask \in {0, 1}
    /\ pvr.gp1.hi = 5248
    /\ pvr.gp1.lo \div 2048 = 4

C18_Witness ==
    /\ pc = "done"
    /\ dispatched = <<[at |-> 0, op |-> 227], [at |-> 1, op |-> 229],
                      [at |-> 2, op |-> 225], [at |-> 3, op |-> 230]>>
    /\ pvr.gp1 = W(5248, 8755)
    /\ pvr.draw_x1 = 10
    /\ pvr.draw_dy = 7
    /\ pvr.check_mask = 1

\* (v + 14) & ~15
RoundToBlock(v) == ((v + 14) \div 16) * 16

(* C19: for a fill command, the x position (its operand masked to          *)
(* 0..1023) and the width (((operand - 1) & 0x3ff) + 1) that               *)
(* cmd_clear_image computes are each rounded by (v + 14) & ~15, so both    *)
(* are multiples of 16.                                                    *)
C19_FillBlockRounding ==
    [][(Dispatching /\ StepOp = 2) =>
          LET pb == StepPacket
              x == pb[2].lo % 1024
              w == (((pb[3].lo - 1) % 65536) % 1024) + 1
              r == cmd_clear_image(pb)
          IN /\ r.x0 = RoundToBlock(x)
             /\ r.w0 = RoundToBlock(w)
             /\ r.x0 % 16 = 0
             /\ r.w0 % 16 = 0]_vars

(* C20: a call that processed no fill command (an empty buffer and a       *)
(* buffer of one truncated command included) returns with *cycles_sum_out  *)
(* and *cycles_last as they were at its entry, whatever polygon, line,     *)
(* rectangle, state or unknown commands it processed.                      *)
C20_CyclesOnlyByFills ==
    [][(ExitStep /\ \A i \in 1..Len(dispatched) : dispatched[i].op # 2) =>
          /\ cycles_sum_out' = cycles_sum_out
          /\ cycles_last' = cycles_last]_vars

C20_Witness ==
    /\ pc = "done"
    /\ ncalls = 1
    /\ dispatched = <<[at |-> 0, op |-> 32], [at |-> 4, op |-> 96]>>
    /\ Len(out) = 9
    /\ cycles_sum_out = 0
    /\ cycles_last = 7

====
